---- MODULE Spec2Model ----
(***************************************************************************)
(* A model of AgentPro (src/agentpro/.ipynb_checkpoints/agent-checkpoint.py) *)
(* the ReAct loop: tool registry, action parser, tool dispatcher and the    *)
(* conversation loop.                                                       *)
(*                                                                          *)
(* Strings are sequences of lexemes.  A lexeme is a piece of text that the  *)
(* program never looks inside: "Final Answer", "Action", "Input",           *)
(* "Observation", ":", one space, one newline, a word.  The markers the     *)
(* code searches for are sequences of lexemes ("Action Input:" is           *)
(* <<"Action", " ", "Input", ":">>), so that "Action" is a substring of     *)
(* "Action Input:" and "Final Answer" of "Final Answer:" exactly as in      *)
(* Python.  No lexeme starts or ends with whitespace, so strip() works on   *)
(* whole lexemes.                                                           *)
(***************************************************************************)
EXTENDS Naturals, Integers, Sequences, FiniteSets, TLC

VARIABLES
    tools,          \* the constructor's tools argument (list of Tool)
    system_prompt,  \* the constructor's system_prompt argument
    registry,       \* self.tools
    messages,       \* self.messages
    pc,             \* "idle": outside __call__; "loop": at the while test
    step_count,     \* __call__'s local step_count
    response,       \* __call__'s local response
    result,         \* what the last finished __call__ returned
    outcome,        \* how the last finished __call__ ended
    model_calls,    \* chat.completions.create calls of this invocation
    dispatches,     \* tool_call calls of this invocation
    runs,           \* tool.run calls of this invocation: <<[name, arg]>>
    last_obs,       \* observation returned by the last tool_call
    invocations,    \* __call__ invocations so far
    script,         \* the client: the outcomes its calls give, cyclically
    calls_total,    \* calls the client has served
    sent,           \* the messages argument of the latest model call
    text,           \* argument of parse_action_string / tool_call
    parsed,         \* parse_action_string(text)
    called,         \* tool_call(text)
    phase           \* "init" | "text" | "parsed" | "called"

vars == <<tools, system_prompt, registry, messages, pc, step_count, response,
          result, outcome, model_calls, dispatches, runs, last_obs,
          invocations, script, calls_total, sent, text, parsed, called,
          phase>>

loopVars == <<messages, pc, step_count, response, result, outcome,
              model_calls, dispatches, runs, last_obs, invocations,
              calls_total, sent>>

textVars == <<text, parsed, called, phase>>

(***************************************************************************)
(* Bounds                                                                   *)
(***************************************************************************)
MaxScript == 2
MaxInvocations == 2
MaxLines == 3

(***************************************************************************)
(* Lexemes                                                                  *)
(***************************************************************************)
SP == " "
NL == "\n"
FA == "Final Answer"
ACT == "Action"
INPUT == "Input"
OBS == "Observation"
COLON == ":"
JOPEN == "{\"a\":"
JCLOSE == "1}"

FinalAnswerMarker == <<FA>>
FinalAnswerColon == <<FA, COLON>>
ActionMarker == <<ACT>>
ActionColon == <<ACT, COLON>>
ActionInputMarker == <<ACT, SP, INPUT>>
ActionInputColon == <<ACT, SP, INPUT, COLON>>
ObservationColon == <<OBS, COLON>>

\* str.lower() on one lexeme
LowerTok(t) ==
    CASE t = "Ares" -> "ares"
      [] t = "Internet" -> "internet"
      [] t = "Search" -> "search"
      [] t = "Tool" -> "tool"
      [] t = FA -> "final answer"
      [] t = ACT -> "action"
      [] t = INPUT -> "input"
      [] t = OBS -> "observation"
      [] t = "Thought" -> "thought"
      [] t = "Paris." -> "paris."
      [] t = "None" -> "none"
      [] OTHER -> t

(***************************************************************************)
(* Python's str operations                                                  *)
(***************************************************************************)
IsSpace(t) == t \in {SP, NL}

SetMin(S) == CHOOSE m \in S : \A n \in S : m <= n
SetMax(S) == CHOOSE m \in S : \A n \in S : m >= n

\* s.strip()
Strip(s) ==
    LET keep == {i \in 1..Len(s) : ~IsSpace(s[i])}
    IN  IF keep = {} THEN <<>> ELSE SubSeq(s, SetMin(keep), SetMax(keep))

\* s.strip("'\"")
StripQuotes(s) ==
    LET keep == {i \in 1..Len(s) : s[i] \notin {"'", "\""}}
    IN  IF keep = {} THEN <<>> ELSE SubSeq(s, SetMin(keep), SetMax(keep))

\* s.lower()
Lower(s) == [i \in 1..Len(s) |-> LowerTok(s[i])]

\* s[i:].startswith(p), i counted from 1
OccursAt(s, p, i) ==
    /\ i + Len(p) - 1 <= Len(s)
    /\ SubSeq(s, i, i + Len(p) - 1) = p

\* s.startswith(p)
StartsWith(s, p) == OccursAt(s, p, 1)

\* the places where p occurs in s
Occurrences(s, p) == {i \in 1..Len(s) : OccursAt(s, p, i)}

\* p in s
Contains(s, p) == Occurrences(s, p) # {}

\* s.split(sep)
RECURSIVE Split(_, _)
Split(s, sep) ==
    IF ~Contains(s, sep)
    THEN <<s>>
    ELSE LET i == SetMin(Occurrences(s, sep))
         IN  <<SubSeq(s, 1, i - 1)>> \o Split(SubSeq(s, i + Len(sep), Len(s)), sep)

\* sep.join(parts)
RECURSIVE Join(_, _)
Join(parts, sep) ==
    IF Len(parts) = 0 THEN <<>>
    ELSE IF Len(parts) = 1 THEN parts[1]
    ELSE parts[1] \o sep \o Join(Tail(parts), sep)

\* s.replace(old, new)
RECURSIVE Replace(_, _, _)
Replace(s, old, new) ==
    IF ~Contains(s, old)
    THEN s
    ELSE LET i == SetMin(Occurrences(s, old))
         IN  SubSeq(s, 1, i - 1) \o new
                \o Replace(SubSeq(s, i + Len(old), Len(s)), old, new)

(***************************************************************************)
(* Values: a str, a dict decoded from JSON, or None                         *)
(***************************************************************************)
Str(s) == [kind |-> "str", text |-> s, a |-> 0]
DictA(n) == [kind |-> "dict", text |-> <<>>, a |-> n]
None == [kind |-> "none", text |-> <<>>, a |-> 0]

\* str(v), and what an f-string puts for {v}
StrOf(v) ==
    CASE v.kind = "str" -> v.text
      [] v.kind = "dict" -> <<"{'a': 1}">>
      [] OTHER -> <<"None">>

\* bool(v)
Truthy(v) ==
    CASE v.kind = "str" -> v.text # <<>>
      [] v.kind = "dict" -> TRUE
      [] OTHER -> FALSE

\* json.loads(s) for the documents these lexemes can spell: the object
\* {"a":1}, with JSON whitespace allowed around and between its two lexemes.
\* Anything else (the empty string included) raises JSONDecodeError.
JsonValid(s) == SelectSeq(s, LAMBDA t : ~IsSpace(t)) = <<JOPEN, JCLOSE>>

\* no decoding: the joined string is returned as it is
KeepRaw(s) == Str(s)

\* try: json.loads(s)  except (JSONDecodeError, TypeError): keep the string
JsonLoadsOrKeep(s) == IF JsonValid(s) THEN DictA(1) ELSE Str(s)

(***************************************************************************)
(* Tools.  A Tool has a name and run(input); raises says whether its run    *)
(* raises an Exception.                                                     *)
(***************************************************************************)
AresName == <<"ares", "_", "internet", "_", "search", "_", "tool">>
DisplayName == <<"Ares", SP, "Internet", SP, "Search", SP, "Tool">>

MockAres == [name |-> AresName, raises |-> FALSE]
FailingAres == [name |-> AresName, raises |-> TRUE]
DisplayAres == [name |-> DisplayName, raises |-> FALSE]
Calculator == [name |-> <<"calculator">>, raises |-> FALSE]

ToolError == <<"boom">>

\* MockAresInternetTool.run.  Its first branch needs "optimized ai",
\* "conference" and "2025" in the prompt, which no lexeme here spells.
MockRun(prompt) ==
    <<"Here is information about:", SP>>
        \o StripQuotes(Lower(StrOf(prompt)))
        \o <<NL, NL, "This is mock data for testing purposes.">>

\* tool.run(action_input): what it returns, or the Exception it raises
ToolRun(tool, arg) ==
    IF tool.raises
    THEN [raised |-> TRUE, out |-> <<>>, err |-> ToolError]
    ELSE [raised |-> FALSE, out |-> MockRun(arg), err |-> <<>>]

\* tool.name.lower().replace(' ', '_'): the key __init__ prints as
\* "Normalized" for each tool
NormalizedName(name) == Replace(Lower(name), <<SP>>, <<"_">>)

(***************************************************************************)
(* The registry: a dict, kept as the sequence of its items in insertion     *)
(* order.                                                                   *)
(***************************************************************************)
HasKey(d, k) == \E i \in 1..Len(d) : d[i].key = k

GetItem(d, k) == d[CHOOSE i \in 1..Len(d) : d[i].key = k].val

Keys(d) == [i \in 1..Len(d) |-> d[i].key]

\* d[k] = v
SetItem(d, k, v) ==
    IF HasKey(d, k)
    THEN [i \in 1..Len(d) |-> IF d[i].key = k THEN [key |-> k, val |-> v] ELSE d[i]]
    ELSE Append(d, [key |-> k, val |-> v])

\* dict(zip(names, ts))
RECURSIVE DictZip(_, _)
DictZip(names, ts) ==
    IF Len(names) = 0 \/ Len(ts) = 0 THEN <<>>
    ELSE SetItem(DictZip(SubSeq(names, 1, Len(names) - 1),
                         SubSeq(ts, 1, Len(names) - 1)),
                 names[Len(names)], ts[Len(names)])

\* the key format_tools files a tool under
ToolKey(name) == name

format_tools(ts) ==
    LET tool_names == [i \in 1..Len(ts) |-> ToolKey(ts[i].name)]
    IN  DictZip(tool_names, ts)

\* str(list(self.tools.keys()))
RECURSIVE ReprItems(_)
ReprItems(ks) ==
    IF Len(ks) = 0 THEN <<>>
    ELSE <<"'">> \o ks[1] \o <<"'">>
            \o (IF Len(ks) > 1 THEN <<",", SP>> ELSE <<>>)
            \o ReprItems(Tail(ks))

ReprKeys(d) == <<"[">> \o ReprItems(Keys(d)) \o <<"]">>

(***************************************************************************)
(* parse_action_string                                                      *)
(***************************************************************************)
\* action = "" in place of action = None
ParseStartEmptyAction ==
    [action |-> Str(<<>>), action_input |-> <<>>, is_action_input |-> FALSE]

ParseStart == [action |-> None, action_input |-> <<>>, is_action_input |-> FALSE]

\* action_input = [] at each Action: line
OnActionLineResets(st, line) ==
    [st EXCEPT !.action = Str(Strip(Replace(line, ActionColon, <<>>))),
               !.action_input = <<>>]

\* the effect of "action = ..." at an Action: line
OnActionLine(st, line) ==
    [st EXCEPT !.action = Str(Strip(Replace(line, ActionColon, <<>>)))]

\* the effect of an Action Input: line
OnActionInputLine(st, line) ==
    LET input_text == Strip(Replace(line, ActionInputColon, <<>>))
    IN  [st EXCEPT !.is_action_input = TRUE,
                   !.action_input = IF input_text # <<>>
                                    THEN Append(@, input_text) ELSE @]

\* the Observation: line is passed over and the flag stays as it was
OnObservationLineIgnored(st, line) == st

\* the effect of an Observation: line
OnObservationLine(st, line) == [st EXCEPT !.is_action_input = FALSE]

\* action_input.append(line): the line is appended as it is
OnOtherLineVerbatim(st, line) ==
    IF st.is_action_input /\ Strip(line) # <<>>
    THEN [st EXCEPT !.action_input = Append(@, line)]
    ELSE st

\* any other line
OnOtherLine(st, line) ==
    IF st.is_action_input /\ Strip(line) # <<>>
    THEN [st EXCEPT !.action_input = Append(@, Strip(line))]
    ELSE st

\* one pass of the body of "for line in lines"
ParseLine(st, line) ==
    IF StartsWith(line, ActionColon) THEN OnActionLine(st, line)
    ELSE IF StartsWith(line, ActionInputColon) THEN OnActionInputLine(st, line)
    ELSE IF StartsWith(line, ObservationColon) THEN OnObservationLine(st, line)
    ELSE OnOtherLine(st, line)

RECURSIVE ParseLines(_, _)
ParseLines(st, lines) ==
    IF Len(lines) = 0 THEN st
    ELSE ParseLines(ParseLine(st, lines[1]), Tail(lines))

\* the for loop, on text.split('\n')
ScanLines(t) == ParseLines(ParseStart, Split(t, <<NL>>))

\* '\n'.join(action_input), then json.loads if possible
DecodeInput(buffer) == JsonLoadsOrKeep(Join(buffer, <<NL>>))

parse_action_string(t) ==
    LET st == ScanLines(t)
    IN  [action |-> st.action, action_input |-> DecodeInput(st.action_input)]

(***************************************************************************)
(* tool_call                                                                *)
(***************************************************************************)
FoundObservation(out) == <<OBS, COLON, SP>> \o out

NotFoundObservation(action, d) ==
    <<OBS, COLON, SP, "Tool", SP, "'">> \o StrOf(action)
        \o <<"'", SP, "not found.", SP, "Available tools:", SP>> \o ReprKeys(d)

\* the error text returned with no Observation: marker
ErrorObservationBare(e) ==
    <<"There was an error executing the tool", NL, "Error:", SP>> \o e

ErrorObservation(e) ==
    <<OBS, COLON, SP, "There was an error executing the tool", NL,
      "Error:", SP>> \o e

\* no except clause: the exception leaves tool_call
OnToolExceptionPropagates(e, ran) == [obs |-> <<>>, ran |-> ran, escaped |-> TRUE]

\* "except Exception as e": the observation returned in place of the raise
OnToolException(e, ran) == [obs |-> ErrorObservation(e), ran |-> ran, escaped |-> FALSE]

\* self.tools[action] with no membership test: KeyError leaves tool_call
OnToolMissingRaises(action, d) == [obs |-> <<>>, ran |-> <<>>, escaped |-> TRUE]

\* the else branch: no tool is run
OnToolMissing(action, d) ==
    [obs |-> NotFoundObservation(action, d), ran |-> <<>>, escaped |-> FALSE]

\* action.strip().lower()
LookupKey(action) == Lower(Strip(action.text))

\* "if action and action.strip().lower() in self.tools"
ToolFound(action, d) == Truthy(action) /\ HasKey(d, LookupKey(action))

\* tool_call(response) on the registry d: the observation, the tool runs
\* made, and whether an exception left tool_call
tool_call(resp, d) ==
    LET p == parse_action_string(resp)
    IN  IF ToolFound(p.action, d)
        THEN LET tool == GetItem(d, LookupKey(p.action))
                 ran == <<[name |-> tool.name, arg |-> p.action_input]>>
                 r == ToolRun(tool, p.action_input)
             IN  IF r.raised
                 THEN OnToolException(r.err, ran)
                 ELSE [obs |-> FoundObservation(r.out), ran |-> ran,
                       escaped |-> FALSE]
        ELSE OnToolMissing(p.action, d)

(***************************************************************************)
(* __init__                                                                 *)
(***************************************************************************)
Msg(role, content) == [role |-> role, content |-> content]

\* tool.get_tool_description(): a block of text that names the tool
ToolDescription(tool) == <<"Tool:", SP>> \o tool.name

\* react_prompt.format(tools=..., tool_names=...)
ReactPrompt(ts) ==
    <<"You have access to the following tools:", NL>>
        \o Join([i \in 1..Len(ts) |-> ToolDescription(ts[i])], <<NL, NL>>)
        \o <<NL, "Choose the most relevant tool from:", SP>>
        \o Join([i \in 1..Len(ts) |-> ts[i].name], <<",", SP>>)

\* self.messages at the end of __init__
InitialMessages(ts, sp) ==
    (IF Truthy(sp) THEN <<Msg("system", sp.text)>> ELSE <<>>)
        \o <<Msg("system", ReactPrompt(ts))>>

(***************************************************************************)
(* The client and the caller                                                *)
(***************************************************************************)
Content(s) == [kind |-> "content", content |-> s]
Raises(e) == [kind |-> "raise", content |-> e]
NoContent == [kind |-> "none", content |-> <<>>]

ApiError == <<"Connection error.">>
NoneTypeError == <<"'NoneType' object has no attribute 'strip'">>

ReplyParis == <<FA, COLON, SP, "Paris.">>
ReplyTwoMarkers ==
    <<SP, "Thought", SP, FA, COLON, SP, "x", NL>> \o ActionColon \o <<SP>>
        \o AresName \o <<NL>> \o ActionInputColon
        \o <<SP, "foo", NL, FA, COLON, SP, SP, "y", SP, NL>>
ReplyNoColon == <<"Thought", SP, FA, SP, "Paris.">>
ReplyUnknownTool ==
    ActionColon \o <<SP, "unknown", "_", "tool", NL>> \o ActionInputColon
        \o <<SP, "foo">>
ReplyKnownTool ==
    <<"Thought", NL>> \o ActionColon \o <<SP>> \o AresName \o <<NL>>
        \o ActionInputColon \o <<SP, JOPEN, JCLOSE>>
ReplyInputOnly == ActionInputColon \o <<SP, "foo">>
ReplyThought == <<"Thought", SP, "x">>
ReplyActionOnly == ActionColon \o <<SP>> \o AresName
ReplyRawInput ==
    ActionColon \o <<SP>> \o AresName \o <<NL>> \o ActionInputColon
        \o <<SP, "foo", NL, SP, "x", SP>>

\* what one call of chat.completions.create can give
Outcomes ==
    { Content(ReplyParis), Content(ReplyTwoMarkers), Content(ReplyNoColon),
      Content(ReplyUnknownTool), Content(ReplyKnownTool),
      Content(ReplyInputOnly), Content(ReplyThought),
      Content(ReplyActionOnly), Content(ReplyRawInput),
      Raises(ApiError), NoContent }

Scripts == UNION {[1..k -> Outcomes] : k \in 1..MaxScript}

\* the caller: the prompt of its n-th invocation
PromptOf(n) ==
    IF n = 1 THEN <<"What is the capital of France?">> ELSE <<"And of Italy?">>

SystemPrompts == {None, Str(<<"You are a helpful assistant.">>)}

ToolLists == {<<MockAres>>, <<Calculator, FailingAres>>, <<DisplayAres>>}

\* the outcome of the client's n-th call
OutcomeOf(n) == script[((n - 1) % Len(script)) + 1]

\* the outcome of the client's next call
NextOutcome == OutcomeOf(calls_total + 1)

(***************************************************************************)
(* The texts given to parse_action_string and tool_call                     *)
(***************************************************************************)
Lines ==
    { ActionColon \o <<SP>> \o AresName,
      ActionColon \o <<SP, "Ares", "_", "Internet", "_", "Search", "_", "Tool", SP>>,
      ActionColon \o <<SP, "unknown", "_", "tool">>,
      ActionColon,
      ActionInputColon \o <<SP, JOPEN, JCLOSE>>,
      ActionInputColon \o <<SP, JOPEN>>,
      ActionInputColon,
      ActionInputColon \o <<SP, "foo">>,
      <<JCLOSE>>,
      ObservationColon \o <<SP, "bar">>,
      <<SP, "Thought", SP>>,
      <<>> }

LineSeqs == UNION {[1..k -> Lines] : k \in 1..MaxLines}

ActionLines == {l \in Lines : StartsWith(l, ActionColon)}

InputLines == {l \in Lines : StartsWith(l, ActionInputColon)}

\* the texts of two Action: / Action Input: pairs
TwoPairTexts ==
    {Join(<<a1, i1, a2, i2>>, <<NL>>) :
        a1 \in ActionLines, i1 \in InputLines,
        a2 \in ActionLines, i2 \in InputLines}

Texts == {Join(ls, <<NL>>) : ls \in LineSeqs} \cup TwoPairTexts

NoParse == [action |-> None, action_input |-> Str(<<>>)]
NoCall == [obs |-> <<>>, ran |-> <<>>, escaped |-> FALSE]

(***************************************************************************)
(* The state after construction                                             *)
(***************************************************************************)
Constructed ==
    /\ tools \in ToolLists
    /\ system_prompt \in SystemPrompts
    /\ registry = format_tools(tools)
    /\ messages = InitialMessages(tools, system_prompt)
    /\ pc = "idle"
    /\ step_count = 0
    /\ response = <<>>
    /\ result = <<>>
    /\ outcome = "none"
    /\ model_calls = 0
    /\ dispatches = 0
    /\ runs = <<>>
    /\ last_obs = <<>>
    /\ invocations = 0
    /\ calls_total = 0
    /\ sent = <<>>

Init ==
    /\ Constructed
    /\ script \in Scripts
    /\ text = <<>>
    /\ parsed = NoParse
    /\ called = NoCall
    /\ phase = "init"

InitText ==
    /\ Constructed
    /\ system_prompt = None
    /\ script = <<Content(ReplyThought)>>
    /\ text \in Texts
    /\ parsed = NoParse
    /\ called = NoCall
    /\ phase = "text"

(***************************************************************************)
(* parse_action_string and tool_call applied to text                        *)
(***************************************************************************)
ParseText ==
    /\ phase = "text"
    /\ parsed' = parse_action_string(text)
    /\ phase' = "parsed"
    /\ UNCHANGED <<tools, system_prompt, registry, script, text, called>>
    /\ UNCHANGED loopVars

CallText ==
    /\ phase = "parsed"
    /\ called' = tool_call(text, registry)
    /\ phase' = "called"
    /\ UNCHANGED <<tools, system_prompt, registry, script, text, parsed>>
    /\ UNCHANGED loopVars

NextText == ParseText \/ CallText

SpecText == InitText /\ [][NextText]_vars

(***************************************************************************)
(* __call__                                                                 *)
(***************************************************************************)
max_steps == 10

ExhaustedMessage ==
    <<"The agent was unable to provide a conclusive answer after multiple steps.">>

\* f"Error: Could not get a response from the model - {e}"
ModelErrorResult(e) ==
    <<"Error: Could not get a response from the model -", SP>> \o e

\* the exception the try block around the model call catches, if any
ModelException(o) == IF o.kind = "raise" THEN o.content ELSE NoneTypeError

\* "while step_count <= max_steps"
LoopContinuesInclusive(n) == n <= max_steps

\* step_count = step_count: the counter carried over from the last invocation
InitialStepCountKept(previous) == previous

\* "step_count = 0" at the start of __call__
InitialStepCount(previous) == 0

\* messages=self.messages[-1:]: the model is sent the latest message only
RequestLatestOnly(msgs) == <<msgs[Len(msgs)]>>

\* "messages=self.messages" in the model call
RequestMessages(msgs) == msgs

\* the counter is left as it was at the top of the loop body
StepCountStuck(n) == n

\* "step_count += 1"
NextStepCount(n) == n + 1

\* "while step_count < max_steps"
LoopContinues(n) == n < max_steps

\* self.messages = [{"role": "user", "content": prompt}]
WithUserPromptOnly(msgs, prompt) == <<Msg("user", prompt)>>

\* self.messages.append({"role": "user", "content": prompt})
WithUserPrompt(msgs, prompt) == Append(msgs, Msg("user", prompt))

\* self.messages.append({"role": "assistant", "content": response})
WithAssistant(msgs, content) == Append(msgs, Msg("assistant", content))

\* an assistant message for the failed call is appended
AfterModelErrorAppends(msgs, e) == Append(msgs, Msg("assistant", e))

\* self.messages after a model call that raised
AfterModelError(msgs, e) == msgs

\* response.split("Final Answer:")[1].strip(): the text after the first marker
FinalAnswerOfSecondPart(resp) ==
    LET parts == Split(resp, FinalAnswerColon)
    IN  Strip(parts[IF Len(parts) > 1 THEN 2 ELSE 1])

\* response.split("Final Answer:")[-1].strip()
FinalAnswerOf(resp) ==
    LET parts == Split(resp, FinalAnswerColon)
    IN  Strip(parts[Len(parts)])

\* the tool call test made before the final answer test
StepKindActionFirst(resp) ==
    IF Contains(resp, ActionMarker) /\ Contains(resp, ActionInputMarker)
    THEN "dispatch"
    ELSE IF Contains(resp, FinalAnswerMarker) THEN "final" ELSE "noop"

\* "Action" alone is taken for a tool call
StepKindActionAlone(resp) ==
    IF Contains(resp, FinalAnswerMarker) THEN "final"
    ELSE IF Contains(resp, ActionMarker) THEN "dispatch" ELSE "noop"

\* the final answer test made on "Final Answer:", with its colon
StepKindColon(resp) ==
    IF Contains(resp, FinalAnswerColon) THEN "final"
    ELSE IF Contains(resp, ActionMarker) /\ Contains(resp, ActionInputMarker)
         THEN "dispatch"
         ELSE "noop"

\* which branch of the loop body a reply takes
StepKind(resp) ==
    IF Contains(resp, FinalAnswerMarker) THEN "final"
    ELSE IF Contains(resp, ActionMarker) /\ Contains(resp, ActionInputMarker)
         THEN "dispatch"
         ELSE "noop"

\* the reply of a call that succeeded: ....message.content.strip()
Reply == Strip(NextOutcome.content)

\* the start of __call__, up to the while test
Invoke ==
    /\ phase = "init"
    /\ pc = "idle"
    /\ invocations < MaxInvocations
    /\ messages' = WithUserPrompt(messages, PromptOf(invocations + 1))
    /\ response' = <<>>
    /\ step_count' = InitialStepCount(step_count)
    /\ pc' = "loop"
    /\ outcome' = "running"
    /\ result' = <<>>
    /\ model_calls' = 0
    /\ dispatches' = 0
    /\ runs' = <<>>
    /\ last_obs' = <<>>
    /\ invocations' = invocations + 1
    /\ UNCHANGED <<tools, system_prompt, registry, script, calls_total, sent>>
    /\ UNCHANGED textVars

\* what every pass of the loop body does first
BeginStep ==
    /\ phase = "init"
    /\ pc = "loop"
    /\ LoopContinues(step_count)
    /\ step_count' = NextStepCount(step_count)
    /\ model_calls' = model_calls + 1
    /\ calls_total' = calls_total + 1
    /\ sent' = RequestMessages(messages)
    /\ UNCHANGED <<tools, system_prompt, registry, script, invocations>>
    /\ UNCHANGED textVars

\* a pass whose model call raises
ModelFails ==
    /\ BeginStep
    /\ NextOutcome.kind # "content"
    /\ messages' = AfterModelError(messages, ModelException(NextOutcome))
    /\ result' = ModelErrorResult(ModelException(NextOutcome))
    /\ outcome' = "model_error"
    /\ pc' = "idle"
    /\ UNCHANGED <<response, dispatches, runs, last_obs>>

\* a pass whose reply has Final Answer
FinalStep ==
    /\ BeginStep
    /\ NextOutcome.kind = "content"
    /\ StepKind(Reply) = "final"
    /\ response' = Reply
    /\ messages' = WithAssistant(messages, Reply)
    /\ result' = FinalAnswerOf(Reply)
    /\ outcome' = "final"
    /\ pc' = "idle"
    /\ UNCHANGED <<dispatches, runs, last_obs>>

\* a pass whose reply has Action and Action Input
DispatchStep ==
    /\ BeginStep
    /\ NextOutcome.kind = "content"
    /\ StepKind(Reply) = "dispatch"
    /\ response' = Reply
    /\ LET tc == tool_call(Reply, registry)
       IN  /\ dispatches' = dispatches + 1
           /\ runs' = runs \o tc.ran
           /\ IF tc.escaped
              THEN /\ messages' = WithAssistant(messages, Reply)
                   /\ last_obs' = last_obs
                   /\ outcome' = "raised"
                   /\ pc' = "idle"
              ELSE /\ messages' = WithAssistant(WithAssistant(messages, Reply), tc.obs)
                   /\ last_obs' = tc.obs
                   /\ outcome' = outcome
                   /\ pc' = pc
    /\ UNCHANGED result

\* a pass whose reply has neither
NoOpStep ==
    /\ BeginStep
    /\ NextOutcome.kind = "content"
    /\ StepKind(Reply) = "noop"
    /\ response' = Reply
    /\ messages' = WithAssistant(messages, Reply)
    /\ UNCHANGED <<result, outcome, pc, dispatches, runs, last_obs>>

\* the while test fails: the return after the loop
Exhaust ==
    /\ phase = "init"
    /\ pc = "loop"
    /\ ~LoopContinues(step_count)
    /\ result' = ExhaustedMessage
    /\ outcome' = "exhausted"
    /\ pc' = "idle"
    /\ UNCHANGED <<tools, system_prompt, registry, script, messages, step_count,
                   response, model_calls, dispatches, runs, last_obs,
                   invocations, calls_total, sent>>
    /\ UNCHANGED textVars

Next ==
    \/ Invoke
    \/ ModelFails
    \/ FinalStep
    \/ DispatchStep
    \/ NoOpStep
    \/ Exhaust

Spec == Init /\ [][Next]_vars

\* the passes of the loop whose model call gives a reply
HandleReply == FinalStep \/ DispatchStep \/ NoOpStep

\* the loop is about to make a model call that gives a reply: some pass of
\* HandleReply can be taken, since StepKind gives one of its three branches
ReplyDue ==
    /\ phase = "init"
    /\ pc = "loop"
    /\ LoopContinues(step_count)
    /\ NextOutcome.kind = "content"

\* __call__ is synchronous: once invoked it runs on, provided every model call
\* and every tool run returns or raises. Weak fairness of each step of the
\* loop; for HandleReply it is written with ReplyDue for its enabling condition
SpecLive ==
    /\ Init /\ [][Next]_vars
    /\ WF_vars(Exhaust)
    /\ WF_vars(ModelFails)
    /\ ([]<>~ReplyDue \/ []<><<HandleReply>>_vars)

(***************************************************************************)
(* Properties                                                               *)
(***************************************************************************)
\* the outcome of the last call the client served
LastOutcome == OutcomeOf(calls_total)

\* the stripped text after the last place where marker occurs in s
TrimmedAfterLast(s, marker) ==
    LET i == SetMax(Occurrences(s, marker))
    IN  Strip(SubSeq(s, i + Len(marker), Len(s)))

\* C1: when the reply of the latest model call of an invocation contains
\* "Final Answer:", the invocation has ended at that step as a final answer
\* and returned the stripped text after the last "Final Answer:" of the reply.
C1_ReturnsTextAfterLastMarker ==
    ( /\ model_calls > 0
      /\ LastOutcome.kind = "content"
      /\ Contains(LastOutcome.content, FinalAnswerColon) )
    => /\ pc = "idle"
       /\ outcome = "final"
       /\ model_calls = step_count
       /\ result = TrimmedAfterLast(LastOutcome.content, FinalAnswerColon)

\* a final answer was taken from a reply with two markers
C1_Witness ==
    /\ outcome = "final"
    /\ Cardinality(Occurrences(response, FinalAnswerColon)) = 2
    /\ result = <<"y">>

\* C2: an invocation whose model calls all succeed with no Final Answer ends
\* only by exhaustion, after exactly max_steps model calls, with the fixed
\* message; a model call or a tool dispatch is only ever made inside an
\* invocation that has made fewer than max_steps model calls, so none follows
\* the exhaustion.
C2_ExhaustsAfterMaxSteps ==
    /\ [](/\ model_calls <= max_steps
          /\ (pc = "idle" /\ outcome \notin {"none", "final", "model_error"})
                => outcome = "exhausted"
          /\ outcome = "exhausted"
                => /\ pc = "idle"
                   /\ model_calls = max_steps
                   /\ result = ExhaustedMessage)
    /\ [][(calls_total' # calls_total \/ Len(runs') > Len(runs)
              \/ dispatches' > dispatches)
            => /\ pc = "loop"
               /\ model_calls < max_steps
               /\ model_calls' = model_calls + 1]_vars

\* exhaustion, with tool dispatches on the way
C2_Witness ==
    /\ outcome = "exhausted"
    /\ model_calls = 10
    /\ dispatches > 0

\* text.split('\n')
LinesOf(t) == Split(t, <<NL>>)

\* t has a line that starts with marker
HasLine(t, marker) ==
    LET ls == LinesOf(t)
    IN  \E i \in 1..Len(ls) : StartsWith(ls[i], marker)

\* the tools argument has a tool of this name
Registered(name) == \E i \in 1..Len(tools) : tools[i].name = name

\* the tools argument has a tool of this name whose run raises
RaisingTool(name) ==
    \E i \in 1..Len(tools) : tools[i].name = name /\ tools[i].raises

\* this step is a pass of the loop whose model call gives the reply Reply
ReplyStep == calls_total' = calls_total + 1 /\ NextOutcome.kind = "content"

\* this step is a pass of the loop whose model call fails
FailedCallStep == calls_total' = calls_total + 1 /\ NextOutcome.kind # "content"

\* C3: with a tool of display name "Ares Internet Search Tool" registered, a
\* tool_call whose action normalizes to ares_internet_search_tool finds the
\* tool under that key and runs it.
C3_DisplayNameInvocable ==
    ( /\ phase = "called"
      /\ Registered(DisplayName)
      /\ parsed.action.kind = "str"
      /\ Lower(Strip(parsed.action.text)) = NormalizedName(DisplayName) )
    => /\ HasKey(registry, NormalizedName(DisplayName))
       /\ called.ran = <<[name |-> DisplayName, arg |-> parsed.action_input]>>

\* C4: a pass of the loop in which a tool is run and raises appends the reply
\* and then the error observation to the history, and leaves the invocation
\* running.
C4_ToolErrorBecomesObservation ==
    [][( /\ ReplyStep
         /\ Len(runs') > Len(runs)
         /\ RaisingTool(runs'[Len(runs')].name) )
       => /\ last_obs' = <<OBS, COLON, SP, "There was an error executing the tool",
                           NL, "Error:", SP>> \o ToolError
          /\ messages' = messages \o <<Msg("assistant", Reply),
                                       Msg("assistant", last_obs')>>
          /\ pc' = "loop"
          /\ outcome' = "running"]_vars

\* after a tool error the loop has gone on to a later model call
C4_Witness ==
    /\ pc = "loop"
    /\ model_calls >= 2
    /\ runs # <<>>
    /\ RaisingTool(runs[1].name)
    /\ Contains(last_obs, <<"There was an error executing the tool">>)

\* C5 as claimed: a text with no line that starts with "Action:" parses to
\* (None, ""), and tool_call on it reports not found and runs nothing.
C5_NoActionGivesNoneAndEmpty ==
    (phase \in {"parsed", "called"} /\ ~HasLine(text, ActionColon))
    => /\ parsed = [action |-> None, action_input |-> Str(<<>>)]
       /\ phase = "called"
            => /\ called.obs = NotFoundObservation(None, registry)
               /\ called.ran = <<>>

\* C5 as amended: a text with no line that starts with "Action:" parses to
\* the action None; the input is "" when the text has no "Action Input:" line
\* either; tool_call on it returns "Observation: Tool 'None' not found.
\* Available tools: " and the list of registry keys, and runs nothing.
C5_NoActionGivesNone ==
    (phase \in {"parsed", "called"} /\ ~HasLine(text, ActionColon))
    => /\ parsed.action = None
       /\ ~HasLine(text, ActionInputColon) => parsed.action_input = Str(<<>>)
       /\ phase = "called"
            => /\ called.obs = <<OBS, COLON, SP, "Tool", SP, "'", "None", "'", SP,
                                 "not found.", SP, "Available tools:", SP>>
                                  \o ReprKeys(registry)
               /\ \A i \in 1..Len(registry) : Contains(called.obs, registry[i].key)
               /\ called.ran = <<>>
               /\ ~called.escaped

\* no Action: line, and an input was collected all the same
C5_Witness ==
    /\ phase = "called"
    /\ ~HasLine(text, ActionColon)
    /\ HasLine(text, ActionInputColon)
    /\ parsed.action = None
    /\ parsed.action_input = Str(<<"foo">>)
    /\ Len(tools) = 2

\* C6: a pass of the loop whose model call fails ends the invocation with the
\* error string, leaves the history as it was, and runs and dispatches
\* nothing; no model call is made outside a running invocation.
C6_ModelFailureEndsInvocation ==
    /\ [][FailedCallStep
           => /\ messages' = messages
              /\ pc' = "idle"
              /\ outcome' = "model_error"
              /\ StartsWith(result',
                     <<"Error: Could not get a response from the model -">>)
              /\ dispatches' = dispatches
              /\ runs' = runs]_vars
    /\ [][calls_total' # calls_total => pc = "loop"]_vars

\* a model call failed after an earlier pass had dispatched a tool
C6_Witness ==
    /\ outcome = "model_error"
    /\ model_calls = 2
    /\ dispatches = 1
    /\ messages[Len(messages)].content = last_obs

\* C7: the history always starts with the system messages of construction
\* (the custom one if given, then the instruction prompt), and every step
\* leaves the old history as a prefix of the new one.
C7_HistoryAppendOnly ==
    /\ [](IF system_prompt # None
          THEN /\ Len(messages) >= 2
               /\ messages[1] = Msg("system", system_prompt.text)
               /\ messages[2] = Msg("system", ReactPrompt(tools))
          ELSE /\ Len(messages) >= 1
               /\ messages[1] = Msg("system", ReactPrompt(tools)))
    /\ [][/\ Len(messages') >= Len(messages)
          /\ SubSeq(messages', 1, Len(messages)) = messages]_vars

\* a second invocation, after an exhausted one, has appended to the history
C7_Witness ==
    /\ invocations = 2
    /\ model_calls >= 1
    /\ Len(messages) > max_steps + 3
    /\ system_prompt # None

\* C8: a pass of the loop whose reply contains "Final Answer" ends the
\* invocation as a final answer, appending the reply only, with no tool_call
\* and no tool run; a first reply "Final Answer: Paris." returns "Paris."
\* after one model call and no dispatch.
C8_FinalAnswerNeverDispatches ==
    /\ [][(ReplyStep /\ Contains(Reply, FinalAnswerMarker))
           => /\ pc' = "idle"
              /\ outcome' = "final"
              /\ dispatches' = dispatches
              /\ runs' = runs
              /\ messages' = Append(messages, Msg("assistant", Reply))]_vars
    /\ []((model_calls = 1 /\ LastOutcome = Content(ReplyParis))
           => /\ pc = "idle"
              /\ outcome = "final"
              /\ result = <<"Paris.">>
              /\ dispatches = 0
              /\ runs = <<>>)

\* a reply with Action, Action Input and Final Answer ended the invocation
\* with no dispatch
C8_Witness ==
    /\ outcome = "final"
    /\ Contains(response, ActionColon)
    /\ Contains(response, ActionInputColon)
    /\ dispatches = 0
    /\ runs = <<>>

\* the action parse_action_string finds in the reply of this step
ReplyAction == (ScanLines(Reply)).action

\* C9: a pass of the loop whose reply has no Final Answer, has Action and
\* Action Input, and names an action that is no registry key runs no tool,
\* appends the reply and an observation that names the action as not found
\* and lists the registry keys, and leaves the invocation running.
C9_UnknownToolIsReported ==
    [][( /\ ReplyStep
         /\ ~Contains(Reply, FinalAnswerMarker)
         /\ Contains(Reply, ActionMarker)
         /\ Contains(Reply, ActionInputMarker)
         /\ ReplyAction.kind = "str"
         /\ ~HasKey(registry, Lower(Strip(ReplyAction.text))) )
       => /\ runs' = runs
          /\ dispatches' = dispatches + 1
          /\ last_obs' = <<OBS, COLON, SP, "Tool", SP, "'">> \o ReplyAction.text
                          \o <<"'", SP, "not found.", SP, "Available tools:", SP>>
                          \o ReprKeys(registry)
          /\ \A i \in 1..Len(registry) : Contains(last_obs', registry[i].key)
          /\ messages' = messages \o <<Msg("assistant", Reply),
                                       Msg("assistant", last_obs')>>
          /\ pc' = "loop"
          /\ outcome' = "running"]_vars

\* unknown_tool was reported at step 1 and the loop went on to step 2
C9_Witness ==
    /\ model_calls = 2
    /\ script[1] = Content(ReplyUnknownTool)
    /\ Len(messages) >= 4
    /\ Contains(messages[Len(messages) - 1].content, <<"unknown", "_", "tool">>)
    /\ Contains(messages[Len(messages) - 1].content, <<"not found.">>)

\* the lines of t end with "Action: X", X a registry key once stripped and
\* lowercased, then "Action Input: {"a":1}", with no "Action Input:" line before
ActionThenJsonInput(t) ==
    LET ls == LinesOf(t)
        n == Len(ls)
    IN  /\ n >= 2
        /\ StartsWith(ls[n - 1], ActionColon)
        /\ HasKey(registry, Lower(Strip(SubSeq(ls[n - 1], 3, Len(ls[n - 1])))))
        /\ ls[n] = ActionInputColon \o <<SP, JOPEN, JCLOSE>>
        /\ \A i \in 1..(n - 1) : ~StartsWith(ls[i], ActionInputColon)

\* the tool that "Action: X" on the line before the last of t names
NamedTool(t) ==
    LET ls == LinesOf(t)
        x == ls[Len(ls) - 1]
    IN  GetItem(registry, Lower(Strip(SubSeq(x, 3, Len(x)))))

\* C10: for such a text parse_action_string returns the decoded {"a": 1} as
\* the input, and tool_call runs the named tool once, with that value, and
\* returns "Observation: " and its output (when its run returns).
C10_JsonInputDecodedAndPassed ==
    (phase \in {"parsed", "called"} /\ ActionThenJsonInput(text))
    => /\ parsed.action_input = DictA(1)
       /\ parsed.action_input.kind = "dict"
       /\ phase = "called"
            => /\ called.ran = <<[name |-> NamedTool(text).name, arg |-> DictA(1)]>>
               /\ ~NamedTool(text).raises
                    => called.obs = <<OBS, COLON, SP>> \o MockRun(DictA(1))

\* a tool named in mixed case was run with the decoded input
C10_Witness ==
    /\ phase = "called"
    /\ ActionThenJsonInput(text)
    /\ Len(LinesOf(text)) = 3
    /\ Contains(text, <<"Ares", "_", "Internet">>)
    /\ called.ran # <<>>
    /\ called.ran[1].arg.kind = "dict"
    /\ Contains(called.obs, <<"{'a': 1}">>)

\* what follows marker on a line that starts with it
Remainder(line, marker) == SubSeq(line, Len(marker) + 1, Len(line))

\* the places of the lines of ls that start with marker
LinesWith(ls, marker) == {i \in 1..Len(ls) : StartsWith(ls[i], marker)}

\* the lines ls have one "Action Input:" line, and after it one line or more,
\* none of them blank, none that starts with "Observation:" or "Action:"
OneInputBlock(ls) ==
    /\ Cardinality(LinesWith(ls, ActionInputColon)) = 1
    /\ \E i \in LinesWith(ls, ActionInputColon) :
          /\ i < Len(ls)
          /\ \A j \in (i + 1)..Len(ls) :
                /\ Strip(ls[j]) # <<>>
                /\ ~StartsWith(ls[j], ObservationColon)
                /\ ~StartsWith(ls[j], ActionColon)

\* the block of ls: the remainder of its "Action Input:" line, stripped, if it
\* is not empty, and the lines after it as they are
BlockVerbatim(ls) ==
    LET i == CHOOSE i \in LinesWith(ls, ActionInputColon) : TRUE
        first == Strip(Remainder(ls[i], ActionInputColon))
    IN  (IF first # <<>> THEN <<first>> ELSE <<>>) \o SubSeq(ls, i + 1, Len(ls))

\* the same block, each line stripped
BlockStripped(ls) ==
    LET block == BlockVerbatim(ls)
    IN  [j \in 1..Len(block) |-> Strip(block[j])]

\* the joined string decoded if it is JSON, kept otherwise
DecodedJoin(pieces) ==
    LET joined == Join(pieces, <<NL>>)
    IN  IF SelectSeq(joined, LAMBDA x : x \notin {SP, NL}) = <<JOPEN, JCLOSE>>
        THEN DictA(1) ELSE Str(joined)

\* C11 as claimed: the input parsed from a text with one multi-line block is
\* the block's lines, each as it is, joined with newlines and then decoded.
C11_BlockJoinedVerbatim ==
    (phase = "parsed" /\ OneInputBlock(LinesOf(text)))
    => parsed.action_input = DecodedJoin(BlockVerbatim(LinesOf(text)))

\* C11 as amended: the input parsed from a text with one multi-line block is
\* the block's lines, each stripped of the whitespace around it, joined with
\* newlines and then decoded.
C11_BlockJoinedStripped ==
    (phase = "parsed" /\ OneInputBlock(LinesOf(text)))
    => parsed.action_input = DecodedJoin(BlockStripped(LinesOf(text)))

\* a JSON object that spans two lines, with an unstripped line before it, was
\* joined and then decoded
C11_Witness ==
    /\ phase = "parsed"
    /\ OneInputBlock(LinesOf(text))
    /\ LinesOf(text) = << <<SP, "Thought", SP>>,
                          ActionInputColon \o <<SP, JOPEN>>, <<JCLOSE>> >>
    /\ parsed.action_input = DictA(1)

\* C12: whatever tool_call returns starts with "Observation:", and no
\* exception leaves tool_call.
C12_ObservationPrefix ==
    phase = "called"
    => /\ StartsWith(called.obs, <<OBS, COLON>>)
       /\ ~called.escaped

\* the observation of a tool run that raised
C12_Witness ==
    /\ phase = "called"
    /\ called.ran # <<>>
    /\ RaisingTool(called.ran[1].name)
    /\ StartsWith(called.obs, <<OBS, COLON>>)
    /\ Contains(called.obs, ToolError)

\* the input parse_action_string finds in the text of the lines of ls before
\* line k
InputBefore(ls, k) ==
    (parse_action_string(Join(SubSeq(ls, 1, k - 1), <<NL>>))).action_input

\* no "Action Input:" line of ls comes after line k
NoInputLineAfter(ls, k) == \A i \in LinesWith(ls, ActionInputColon) : i < k

\* parse_action_string stops collecting at every line of ls that starts with
\* marker: where no "Action Input:" line comes after such a line, the input
\* found is the input found in the lines before it
StopsCollectingAt(ls, marker) ==
    \A k \in LinesWith(ls, marker) :
        NoInputLineAfter(ls, k) => parsed.action_input = InputBefore(ls, k)

\* C13: when a line starts with "Action:" and no "Action Input:" line comes
\* after it, the input is what the lines before that line give: no line after
\* the "Action:" line is collected.
C13_ActionLineStopsCollecting ==
    phase = "parsed" => StopsCollectingAt(LinesOf(text), ActionColon)

\* C14: when a line starts with "Observation:" and no "Action Input:" line
\* comes after it, the input is what the lines before that line give: neither
\* the "Observation:" line nor a line after it is collected.
C14_ObservationStopsCollecting ==
    phase = "parsed" => StopsCollectingAt(LinesOf(text), ObservationColon)

\* an echoed observation and the line after it were left out of the input
C14_Witness ==
    /\ phase = "parsed"
    /\ LinesOf(text) = << ActionInputColon \o <<SP, "foo">>,
                          ObservationColon \o <<SP, "bar">>,
                          <<SP, "Thought", SP>> >>
    /\ parsed.action_input = Str(<<"foo">>)

\* C15: a pass of the loop whose model call succeeds consumes one step and
\* appends the reply as an assistant message; with Final Answer in the reply
\* it appends nothing else; otherwise, with both Action and Action Input in
\* the reply, it appends one more assistant message, the observation; otherwise
\* it appends nothing else, runs no tool and leaves the invocation running.
C15_StepAppends ==
    [][ReplyStep
       => /\ step_count' = step_count + 1
          /\ model_calls' = model_calls + 1
          /\ IF Contains(Reply, FinalAnswerMarker)
             THEN messages' = messages \o <<Msg("assistant", Reply)>>
             ELSE IF Contains(Reply, ActionMarker) /\ Contains(Reply, ActionInputMarker)
             THEN /\ Len(messages') = Len(messages) + 2
                  /\ SubSeq(messages', 1, Len(messages) + 1)
                        = messages \o <<Msg("assistant", Reply)>>
                  /\ messages'[Len(messages')].role = "assistant"
                  /\ StartsWith(messages'[Len(messages')].content, <<OBS, COLON>>)
             ELSE /\ messages' = messages \o <<Msg("assistant", Reply)>>
                  /\ runs' = runs
                  /\ dispatches' = dispatches
                  /\ pc' = "loop"
                  /\ outcome' = "running"]_vars

\* a reply with an Action: line and no Action Input was recorded and nothing
\* else happened in its step
C15_Witness ==
    /\ pc = "loop"
    /\ model_calls = 1
    /\ step_count = 1
    /\ response = ReplyActionOnly
    /\ messages[Len(messages)] = Msg("assistant", ReplyActionOnly)
    /\ messages[Len(messages) - 1].role = "user"
    /\ dispatches = 0

\* the input buffer parse_action_string fills from the reply of this step
ReplyInputText == Join((ScanLines(Reply)).action_input, <<NL>>)

\* the reply of this step has malformed action text: no "Action:" line, or an
\* input that does not decode
Malformed == ~HasLine(Reply, ActionColon) \/ ~JsonValid(ReplyInputText)

\* the not-found observation for a parsed action of None
NoneNotFound ==
    <<OBS, COLON, SP, "Tool", SP, "'", "None", "'", SP, "not found.", SP,
      "Available tools:", SP>> \o ReprKeys(registry)

\* C16 as claimed: a pass whose reply has no Final Answer and malformed action
\* text runs no tool, appends a not-found observation after the reply and
\* leaves the invocation running with one step consumed.
C16_MalformedIsReported ==
    [][(ReplyStep /\ ~Contains(Reply, FinalAnswerMarker) /\ Malformed)
       => /\ runs' = runs
          /\ Contains(last_obs', <<"not found.">>)
          /\ messages' = messages \o <<Msg("assistant", Reply),
                                       Msg("assistant", last_obs')>>
          /\ pc' = "loop"
          /\ step_count' = step_count + 1]_vars

\* C16 as amended: a pass whose reply has no Final Answer, has both Action and
\* Action Input, and has no "Action:" line parses the action as None, runs no
\* tool, appends the observation "Tool 'None' not found" with the registry
\* keys after the reply, and leaves the invocation running with one step
\* consumed; a pass whose reply has no Final Answer and lacks Action or Action
\* Input appends the reply only; an input that does not decode goes to a tool
\* that is found as the raw string.
C16_NoActionLineIsReported ==
    /\ [][( /\ ReplyStep
            /\ ~Contains(Reply, FinalAnswerMarker)
            /\ Contains(Reply, ActionMarker)
            /\ Contains(Reply, ActionInputMarker)
            /\ ~HasLine(Reply, ActionColon) )
          => /\ ReplyAction = None
             /\ runs' = runs
             /\ dispatches' = dispatches + 1
             /\ last_obs' = NoneNotFound
             /\ messages' = messages \o <<Msg("assistant", Reply),
                                          Msg("assistant", NoneNotFound)>>
             /\ pc' = "loop"
             /\ outcome' = "running"
             /\ step_count' = step_count + 1]_vars
    /\ [][( /\ ReplyStep
            /\ ~Contains(Reply, FinalAnswerMarker)
            /\ ~(Contains(Reply, ActionMarker) /\ Contains(Reply, ActionInputMarker)) )
          => /\ messages' = messages \o <<Msg("assistant", Reply)>>
             /\ last_obs' = last_obs
             /\ pc' = "loop"]_vars
    /\ [][( /\ ReplyStep
            /\ ~Contains(Reply, FinalAnswerMarker)
            /\ Contains(Reply, ActionInputMarker)
            /\ ReplyAction.kind = "str"
            /\ HasKey(registry, Lower(Strip(ReplyAction.text)))
            /\ ~JsonValid(ReplyInputText) )
          => /\ Len(runs') = Len(runs) + 1
             /\ runs'[Len(runs')].arg = Str(ReplyInputText)]_vars

\* the report for a reply with no Action: line was in the history sent with
\* the next model call
C16_Witness ==
    /\ model_calls = 2
    /\ Len(sent) >= 2
    /\ sent[Len(sent) - 1] = Msg("assistant", ReplyInputOnly)
    /\ sent[Len(sent)] = Msg("assistant", NoneNotFound)
    /\ runs = <<>>

\* the user messages of a history
UserMessages(msgs) == SelectSeq(msgs, LAMBDA m : m.role = "user")

\* C17: every invocation starts its step counter from zero and appends its
\* user prompt to the history as the earlier invocations left it; every model
\* call is sent the whole history; the counter counts the model calls of the
\* invocation and never passes max_steps.
C17_CounterResetHistoryKept ==
    /\ [][invocations' = invocations + 1
          => /\ step_count' = 0
             /\ model_calls' = 0
             /\ pc' = "loop"
             /\ messages' = Append(messages, Msg("user", PromptOf(invocations')))]_vars
    /\ [][calls_total' # calls_total => sent' = messages]_vars
    /\ [](step_count = model_calls /\ model_calls <= max_steps)

\* a second invocation, after a first one that used up its steps, made
\* max_steps model calls of its own, the last one with both prompts in the
\* history it sent
C17_Witness ==
    /\ invocations = 2
    /\ model_calls = max_steps
    /\ Len(messages) > 2 * max_steps
    /\ UserMessages(sent) = <<Msg("user", PromptOf(1)), Msg("user", PromptOf(2))>>

\* the outcomes of the model calls of the current invocation
CallsOfInvocation == {OutcomeOf(i) : i \in (calls_total - model_calls + 1)..calls_total}

\* C18: an invocation makes at most max_steps model calls and at most one
\* tool run per model call; once returned it has one of three outcomes; it is
\* exhausted only with the counter at max_steps after max_steps model calls
\* that all succeeded with no Final Answer; and every invocation returns.
C18_InvocationTerminates ==
    /\ [](/\ model_calls <= max_steps
          /\ dispatches <= model_calls
          /\ Len(runs) <= dispatches
          /\ (pc = "idle" /\ invocations > 0)
                => outcome \in {"final", "model_error", "exhausted"}
          /\ pc = "loop" => outcome = "running"
          /\ outcome = "exhausted"
                => /\ step_count = max_steps
                   /\ model_calls = max_steps
                   /\ \A o \in CallsOfInvocation :
                         /\ o.kind = "content"
                         /\ ~Contains(Strip(o.content), FinalAnswerMarker))
    /\ (pc = "loop") ~> (pc = "idle")

\* an invocation returned by exhaustion with a tool run at every other step
C18_Witness ==
    /\ pc = "idle"
    /\ outcome = "exhausted"
    /\ model_calls = max_steps
    /\ Len(runs) = 5
    /\ dispatches = 5

\* C19: a pass of the loop whose reply contains "Final Answer" and nowhere
\* "Final Answer:" ends the invocation as a final answer and returns the whole
\* reply stripped, with no tool_call and no tool run.
C19_NoColonReturnsWholeReply ==
    [][( /\ ReplyStep
         /\ Contains(Reply, FinalAnswerMarker)
         /\ ~Contains(Reply, FinalAnswerColon) )
       => /\ pc' = "idle"
          /\ outcome' = "final"
          /\ result' = Strip(NextOutcome.content)
          /\ dispatches' = dispatches
          /\ runs' = runs]_vars

\* the whole reply "Thought Final Answer Paris." was returned
C19_Witness ==
    /\ pc = "idle"
    /\ outcome = "final"
    /\ response = ReplyNoColon
    /\ ~Contains(response, FinalAnswerColon)
    /\ result = ReplyNoColon
    /\ dispatches = 0

\* the collecting flag is set when line j of ls is read: an "Action Input:"
\* line came before it with no "Observation:" line in between
Collecting(ls, j) ==
    \E i \in 1..(j - 1) :
        /\ StartsWith(ls[i], ActionInputColon)
        /\ \A m \in (i + 1)..(j - 1) : ~StartsWith(ls[m], ObservationColon)

\* what line j of ls adds to the input buffer, <<>> if nothing
Piece(ls, j) ==
    IF StartsWith(ls[j], ActionInputColon)
    THEN Strip(Remainder(ls[j], ActionInputColon))
    ELSE IF StartsWith(ls[j], ActionColon) \/ StartsWith(ls[j], ObservationColon)
         THEN <<>>
         ELSE IF Collecting(ls, j) THEN Strip(ls[j]) ELSE <<>>

\* what the lines of every block of ls add to the buffer, in order
AllPieces(ls) ==
    SelectSeq([j \in 1..Len(ls) |-> Piece(ls, j)], LAMBDA x : x # <<>>)

\* the last "Action:" line of ls
LastActionLine(ls) == ls[SetMax(LinesWith(ls, ActionColon))]

\* ls has an "Action:" line and two or more "Action Input:" lines
SeveralPairs(ls) ==
    /\ LinesWith(ls, ActionColon) # {}
    /\ Cardinality(LinesWith(ls, ActionInputColon)) >= 2

\* the action and the input of the lines ls, several pairs among them: the
\* action of the last "Action:" line, the pieces of all blocks joined
ParsedOfPairs(ls) ==
    [action |-> Str(Strip(Remainder(LastActionLine(ls), ActionColon))),
     action_input |-> DecodedJoin(AllPieces(ls))]

\* C20: for a text with an "Action:" line and several "Action Input:" lines
\* the action is the stripped remainder of the last "Action:" line, the input
\* is the decoded newline-join of what every block collected, and tool_call
\* runs the tool of that action, if registered, once and with that input.
C20_BufferNeverReset ==
    (phase \in {"parsed", "called"} /\ SeveralPairs(LinesOf(text)))
    => /\ phase = "parsed" => parsed = ParsedOfPairs(LinesOf(text))
       /\ phase = "called"
            => called.ran =
                 IF HasKey(registry, Lower(Strip(parsed.action.text)))
                 THEN <<[name |-> Lower(Strip(parsed.action.text)),
                         arg |-> parsed.action_input]>>
                 ELSE <<>>

\* two pairs: the tool of the second Action: line was run once, with the
\* inputs of both blocks
C20_Witness ==
    /\ phase = "called"
    /\ LinesOf(text) = << <<ACT, COLON>>,
                          ActionInputColon \o <<SP, "foo">>,
                          ActionColon \o <<SP>> \o AresName,
                          ActionInputColon \o <<SP, "foo">> >>
    /\ parsed.action = Str(AresName)
    /\ called.ran = <<[name |-> AresName, arg |-> Str(<<"foo", NL, "foo">>)]>>

====
